---- MODULE Spec2Model ----
(***************************************************************************)
(* Specific record support of avro (lang/py/src/avro/specific.py).         *)
(*                                                                         *)
(* Two record instances of classes generated by SpecificRecordMeta from    *)
(* TEST_SCHEMA are driven through every operation of SpecificRecordBase    *)
(* and through the generated property accessors.  The result of the last   *)
(* operation (return value or raised exception) is kept in `last`.         *)
(***************************************************************************)
EXTENDS Integers, FiniteSets, Sequences, TLC

\* Largest value the "int" schema type accepts; MaxInt + 1 is a value only
\* the "long" schema type accepts.
MaxInt == 1

VARIABLES
  cls,        \* instance -> the generated class it was constructed from
  _fields,    \* instance -> the value held by its _fields slot
  succeeded,  \* instance -> declared field names a set has succeeded for
  last        \* the last operation, its arguments and its outcome

vars == <<cls, _fields, succeeded, last>>

----------------------------------------------------------------------------
\* Python values.  Every value has the same shape so that any two compare.

NoMap == <<>>

PyNone == [tag |-> "none", n |-> 0, map |-> NoMap]

PyInt(k) == [tag |-> "int", n |-> k, map |-> NoMap]

PyStr == [tag |-> "str", n |-> 0, map |-> NoMap]

PyBool(b) == [tag |-> "bool", n |-> IF b THEN 1 ELSE 0, map |-> NoMap]

PyDict(m) == [tag |-> "dict", n |-> 0, map |-> m]

IsDict(v) == v.tag = "dict"

DictSet(m, k, v) == [x \in (DOMAIN m) \cup {k} |-> IF x = k THEN v ELSE m[x]]

\* The values callers pass to the write operations.
Atoms == {PyInt(k) : k \in 1..(MaxInt + 1)} \cup {PyStr}

Dicts == {PyDict("zz" :> PyStr)}

Values == Atoms \cup Dicts

----------------------------------------------------------------------------
\* The schema and the validation predicate consumed from avro.io.

TEST_SCHEMA ==
  << [name |-> "f1", type |-> "int"], [name |-> "f2", type |-> "long"] >>

validate(type, value) ==
  CASE type = "int"  -> value.tag = "int" /\ value.n <= MaxInt
    [] type = "long" -> value.tag = "int"
    [] OTHER         -> FALSE

----------------------------------------------------------------------------
\* Outcomes of an operation: a return value or a raised exception, and the
\* value of the instance's _fields slot afterwards.

Return(ret, f) ==
  [status |-> "ok", exc |-> "none", etype |-> "none", evalue |-> PyNone,
   ret |-> ret, ks |-> {}, fields |-> f]

ReturnKeys(ks, f) ==
  [status |-> "ok", exc |-> "none", etype |-> "none", evalue |-> PyNone,
   ret |-> PyNone, ks |-> ks, fields |-> f]

Raise(exc, f) ==
  [status |-> "raise", exc |-> exc, etype |-> "none", evalue |-> PyNone,
   ret |-> PyNone, ks |-> {}, fields |-> f]

AvroTypeException(type, value, f) ==
  [status |-> "raise", exc |-> "AvroTypeException", etype |-> type,
   evalue |-> value, ret |-> PyNone, ks |-> {}, fields |-> f]

----------------------------------------------------------------------------
\* Class generation.

\* SpecificRecordMeta.__new__ and __init__: the class keeps the schema, has
\* the slots _fields and __weakref__ and no instance dictionary, and gets
\* one property per schema field.
SpecificRecordMeta(name, schema) ==
  [name |-> name,
   _schema |-> schema,
   __slots__ |-> {"_fields", "__weakref__"},
   props |-> {schema[k].name : k \in DOMAIN schema}]

specific_record(name) == SpecificRecordMeta(name, TEST_SCHEMA)

get_schema(c) == c._schema

FieldNamed(c, key) ==
  LET s == get_schema(c)
  IN  s[CHOOSE k \in DOMAIN s :
          /\ s[k].name = key
          /\ \A j \in DOMAIN s : s[j].name = key => j <= k]

\* Attributes an instance of class c answers to.
Attributes(c) ==
  c.props \cup c.__slots__ \cup
  {"_schema", "validate", "get_schema", "keys",
   "__init__", "__getitem__", "__setitem__", "__eq__", "__ne__"}

----------------------------------------------------------------------------
\* The generated accessors.

getter(field, self_fields) ==
  IF IsDict(self_fields)
  THEN Return(IF field.name \in DOMAIN self_fields.map
              THEN self_fields.map[field.name] ELSE PyNone, self_fields)
  ELSE Raise("AttributeError", self_fields)

\* The setter with the store moved in front of the validation.
setter_storeFirst(field, self_fields, value) ==
  IF IsDict(self_fields)
  THEN IF validate(field.type, value)
       THEN Return(PyNone,
                   PyDict(DictSet(self_fields.map, field.name, value)))
       ELSE AvroTypeException(field.type, value,
                   PyDict(DictSet(self_fields.map, field.name, value)))
  ELSE IF validate(field.type, value)
       THEN Raise("TypeError", self_fields)
       ELSE AvroTypeException(field.type, value, self_fields)

setter(field, self_fields, value) ==
  IF validate(field.type, value)
  THEN IF IsDict(self_fields)
       THEN Return(PyNone,
                   PyDict(DictSet(self_fields.map, field.name, value)))
       ELSE Raise("TypeError", self_fields)
  ELSE AvroTypeException(field.type, value, self_fields)

----------------------------------------------------------------------------
\* SpecificRecordBase.

__init__ == PyDict(NoMap)

__getitem__(self_fields, key) ==
  CASE IsDict(self_fields) ->
         IF key \in DOMAIN self_fields.map
         THEN Return(self_fields.map[key], self_fields)
         ELSE Raise("KeyError", self_fields)
    [] self_fields.tag = "str" -> Raise("TypeError", self_fields)
    [] OTHER -> Raise("AttributeError", self_fields)

\* setattr(self, key, value): a property runs its setter, the _fields slot
\* takes the value, everything else is refused (no instance dictionary).
__setitem__(c, self_fields, key, value) ==
  CASE key \in c.props -> setter(FieldNamed(c, key), self_fields, value)
    [] key \notin c.props /\ key \in c.__slots__ \ {"__weakref__"} ->
         Return(PyNone, value)
    [] OTHER -> Raise("AttributeError", self_fields)

keys(self_fields) ==
  IF IsDict(self_fields)
  THEN ReturnKeys(DOMAIN self_fields.map, self_fields)
  ELSE Raise("AttributeError", self_fields)

__eq__(self_cls, self_fields, other_cls, other_fields) ==
  IF other_cls = self_cls
  THEN Raise("AttributeError", self_fields)
  ELSE Raise("NameError", self_fields)

__ne__(self_cls, self_fields, other_cls, other_fields) ==
  Return(PyBool(FALSE), self_fields)

\* cls.validate(instance), from the k-th field of the schema on.
RECURSIVE validateFrom(_, _, _, _)
validateFrom(c, inst_cls, inst_fields, k) ==
  LET s == get_schema(c)
  IN  IF k > Len(s) THEN Return(PyNone, inst_fields)
      ELSE IF "get" \notin Attributes(inst_cls)
           THEN Raise("AttributeError", inst_fields)
           ELSE LET g == getter(s[k], inst_fields)
                IN  IF g.status # "ok" THEN g
                    ELSE IF ~validate(s[k].type, g.ret)
                         THEN AvroTypeException(s[k].type, g.ret, inst_fields)
                         ELSE validateFrom(c, inst_cls, inst_fields, k + 1)

----------------------------------------------------------------------------
\* The state machine.

Instances == {"a", "b"}

ClassNames == {"T1", "T2"}

Keys == {"f1", "f2", "_fields", "f3"}

Op(op, i, j, key, arg, out) ==
  [op |-> op, inst |-> i, other |-> j, key |-> key, arg |-> arg,
   status |-> out.status, exc |-> out.exc, etype |-> out.etype,
   evalue |-> out.evalue, ret |-> out.ret, ks |-> out.ks]

Init ==
  /\ cls = [i \in Instances |-> IF i = "a" THEN "T1" ELSE "T2"]
  /\ _fields = [i \in Instances |-> __init__]
  /\ succeeded = [i \in Instances |-> {}]
  /\ last = Op("new", "a", "a", "none", PyNone, Return(PyNone, __init__))

Wrote(c, key, out) ==
  IF key \in c.props /\ out.status = "ok" THEN {key} ELSE {}

\* instance[key] = value
SetItem(i, key, value) ==
  LET c == specific_record(cls[i])
      out == __setitem__(c, _fields[i], key, value)
  IN  /\ _fields' = [_fields EXCEPT ![i] = out.fields]
      /\ succeeded' = [succeeded EXCEPT ![i] = @ \cup Wrote(c, key, out)]
      /\ last' = Op("setitem", i, i, key, value, out)
      /\ UNCHANGED cls

\* instance.<field> = value
Setter(i, k, value) ==
  LET c == specific_record(cls[i])
      field == get_schema(c)[k]
      out == setter(field, _fields[i], value)
  IN  /\ _fields' = [_fields EXCEPT ![i] = out.fields]
      /\ succeeded' = [succeeded EXCEPT ![i] = @ \cup Wrote(c, field.name, out)]
      /\ last' = Op("setter", i, i, field.name, value, out)
      /\ UNCHANGED cls

\* instance[key]
GetItem(i, key) ==
  LET out == __getitem__(_fields[i], key)
  IN  /\ _fields' = [_fields EXCEPT ![i] = out.fields]
      /\ last' = Op("getitem", i, i, key, PyNone, out)
      /\ UNCHANGED <<cls, succeeded>>

\* instance.<field>
Getter(i, k) ==
  LET field == get_schema(specific_record(cls[i]))[k]
      out == getter(field, _fields[i])
  IN  /\ _fields' = [_fields EXCEPT ![i] = out.fields]
      /\ last' = Op("getter", i, i, field.name, PyNone, out)
      /\ UNCHANGED <<cls, succeeded>>

\* instance.keys()
KeysOf(i) ==
  LET out == keys(_fields[i])
  IN  /\ _fields' = [_fields EXCEPT ![i] = out.fields]
      /\ last' = Op("keys", i, i, "none", PyNone, out)
      /\ UNCHANGED <<cls, succeeded>>

\* i == j
Eq(i, j) ==
  LET out == __eq__(cls[i], _fields[i], cls[j], _fields[j])
  IN  /\ _fields' = [_fields EXCEPT ![i] = out.fields]
      /\ last' = Op("eq", i, j, "none", PyNone, out)
      /\ UNCHANGED <<cls, succeeded>>

\* i != j
Ne(i, j) ==
  LET out == __ne__(cls[i], _fields[i], cls[j], _fields[j])
  IN  /\ _fields' = [_fields EXCEPT ![i] = out.fields]
      /\ last' = Op("ne", i, j, "none", PyNone, out)
      /\ UNCHANGED <<cls, succeeded>>

\* type(i).validate(i)
Validate(i) ==
  LET c == specific_record(cls[i])
      out == validateFrom(c, c, _fields[i], 1)
  IN  /\ _fields' = [_fields EXCEPT ![i] = out.fields]
      /\ last' = Op("validate", i, i, "none", PyNone, out)
      /\ UNCHANGED <<cls, succeeded>>

Next ==
  \/ \E i \in Instances, key \in Keys, value \in Values : SetItem(i, key, value)
  \/ \E i \in Instances, k \in DOMAIN TEST_SCHEMA, value \in Values :
       Setter(i, k, value)
  \/ \E i \in Instances, key \in Keys : GetItem(i, key)
  \/ \E i \in Instances, k \in DOMAIN TEST_SCHEMA : Getter(i, k)
  \/ \E i \in Instances : KeysOf(i)
  \/ \E i \in Instances, j \in Instances : Eq(i, j)
  \/ \E i \in Instances, j \in Instances : Ne(i, j)
  \/ \E i \in Instances : Validate(i)

Spec == Init /\ [][Next]_vars

----------------------------------------------------------------------------
\* Vocabulary of the properties.

ClassOf(i) == specific_record(cls[i])

Declared(i) == ClassOf(i).props

TypeOfField(i, key) == FieldNamed(ClassOf(i), key).type

IsSet(l) == l.op \in {"setitem", "setter"}

\* The conceptual state of field key of instance i in slot value f.
FieldState(f, key) ==
  IF IsDict(f) /\ key \in DOMAIN f.map
  THEN [written |-> TRUE, value |-> f.map[key]]
  ELSE [written |-> FALSE, value |-> PyNone]

\* The value bulk validation reads for a field: None when it is unwritten.
ReadOrNone(f, key) == FieldState(f, key).value

Offending(i) ==
  LET s == get_schema(ClassOf(i))
  IN  {k \in DOMAIN s : ~validate(s[k].type, ReadOrNone(_fields[i], s[k].name))}

FirstOffending(i) ==
  CHOOSE k \in Offending(i) : \A j \in Offending(i) : k <= j

----------------------------------------------------------------------------
\* C1: a set of a declared field with a value that validates succeeds, by
\* key or through the setter, whatever preceded it, and a get of the field
\* that follows it returns that value.
C1_ValidSetThenGet ==
  (IsSet(last) /\ last.key \in Declared(last.inst)
     /\ validate(TypeOfField(last.inst, last.key), last.arg))
  => /\ last.status = "ok"
     /\ __getitem__(_fields[last.inst], last.key).status = "ok"
     /\ __getitem__(_fields[last.inst], last.key).ret = last.arg

\* C2: a set of a declared field with a value that does not validate raises
\* AvroTypeException(field type, value) and leaves the field mapping of the
\* instance exactly as it was.
C2_InvalidSetRejected ==
  [][(IsSet(last') /\ last'.key \in Declared(last'.inst)
        /\ ~validate(TypeOfField(last'.inst, last'.key), last'.arg))
     => /\ last'.status = "raise"
        /\ last'.exc = "AvroTypeException"
        /\ last'.etype = TypeOfField(last'.inst, last'.key)
        /\ last'.evalue = last'.arg
        /\ _fields' = _fields]_vars

\* C2 witness: a set of f1 with a value outside the int range was refused
\* while f1 kept the value written before.
C2_Witness ==
  /\ last.op = "setitem" /\ last.inst = "a" /\ last.key = "f1"
  /\ last.arg = PyInt(MaxInt + 1)
  /\ last.exc = "AvroTypeException"
  /\ _fields["a"] = PyDict("f1" :> PyInt(1))

\* C3: in every reachable state the field mapping of every instance holds
\* only declared field names as keys and only values that validate against
\* the type of their field.
C3_MappingDeclaredAndValid ==
  \A i \in Instances :
    /\ IsDict(_fields[i])
    /\ \A k \in DOMAIN _fields[i].map :
         /\ k \in Declared(i)
         /\ validate(TypeOfField(i, k), _fields[i].map[k])

\* C4: a set by key fails for every key that is not a declared field name,
\* whatever the value.
C4_UndeclaredKeyRefused ==
  (last.op = "setitem" /\ last.key \notin Declared(last.inst))
  => last.status = "raise"

\* C5: a == b returns a boolean: true exactly when both are instances of the
\* same class and their field mappings are equal.
C5_EqualityByTypeAndMapping ==
  (last.op = "eq")
  => /\ last.status = "ok"
     /\ last.ret = PyBool(cls[last.inst] = cls[last.other]
                          /\ _fields[last.inst] = _fields[last.other])

\* C6: bulk validation reads the fields in declaration order, an unwritten
\* field as None; it raises AvroTypeException(type, value) for the first field
\* whose value does not validate and returns normally when there is none.
C6_BulkValidateFirstOffender ==
  (last.op = "validate" /\ IsDict(_fields[last.inst]))
  => IF Offending(last.inst) = {}
     THEN last.status = "ok"
     ELSE LET f == get_schema(ClassOf(last.inst))[FirstOffending(last.inst)]
          IN  /\ last.exc = "AvroTypeException"
              /\ last.etype = f.type
              /\ last.evalue = ReadOrNone(_fields[last.inst], f.name)

\* C7: for a declared field no set has succeeded for, the getter returns
\* None without raising, instance[key] raises KeyError, and neither read
\* changes the field mapping.
C7_ReadsOfUnwrittenField ==
  [][(last'.op \in {"getter", "getitem"}
        /\ last'.key \in Declared(last'.inst)
        /\ last'.key \notin succeeded[last'.inst])
     => /\ last'.op = "getter" => (last'.status = "ok" /\ last'.ret = PyNone)
        /\ last'.op = "getitem" => last'.exc = "KeyError"
        /\ _fields' = _fields]_vars

\* C8: keys() of an instance is, in every reachable state, exactly the set
\* of declared field names a set has succeeded for since construction (the
\* empty set right after construction).
C8_KeysAreSucceededSets ==
  \A i \in Instances :
    /\ keys(_fields[i]).status = "ok"
    /\ keys(_fields[i]).ks = succeeded[i]

\* C9: the state of a field of an instance changes only by a successful set
\* of that field on that instance, and then to written with the value set: a
\* written field never becomes unwritten.
C9_FieldStateMachine ==
  [][\A i \in Instances : \A key \in Declared(i) :
       (FieldState(_fields'[i], key) # FieldState(_fields[i], key))
       => /\ IsSet(last') /\ last'.inst = i /\ last'.key = key
          /\ last'.status = "ok"
          /\ FieldState(_fields'[i], key) =
               [written |-> TRUE, value |-> last'.arg]]_vars

\* C10: a != b returns the negation of equality: true when the instances
\* differ in class or in field mapping, false when they are equal.
C10_InequalityNegatesEquality ==
  (last.op = "ne")
  => /\ last.status = "ok"
     /\ last.ret = PyBool(~(cls[last.inst] = cls[last.other]
                            /\ _fields[last.inst] = _fields[last.other]))

====
